---- MODULE Spec2Model ----
(***************************************************************************)
(* Model of get_co2.py: the data-preparation pipeline get_noaa_data        *)
(* (fetch, set_index, drop, monthly groupby, window selection, anchor      *)
(* extraction) followed by plot, run once from __main__.                   *)
(*                                                                         *)
(* Dates are proleptic-Gregorian day ordinals (datetime.date.toordinal);   *)
(* pandas' Timestamps count nanoseconds from 1970 instead, which is the    *)
(* same linear order and the same day differences.  ppm values are         *)
(* integers in hundredths of a ppm; a mean is the exact fraction           *)
(* <<numerator, denominator>> in lowest terms, NaN is the empty tuple.     *)
(* An unbound local is the empty tuple, a bound one the tuple <<value>>.   *)
(***************************************************************************)
EXTENDS Integers, Sequences, FiniteSets, TLC

(***************************************************************************)
(* Program constants                                                       *)
(***************************************************************************)
NUMBER_OF_YEARS == 10

\* mutant: the offset one row short
YearAgoOffsetShort == 366 - 1

\* data.iloc[-366,:] : the positional offset of year_ago from the end
YearAgoOffset == 366

\* data.iloc[-1,:] : the positional offset of yesterday from the end
YesterdayOffset == 1

NaN == <<>>

(***************************************************************************)
(* Calendar arithmetic (datetime / pandas semantics used by the source)    *)
(***************************************************************************)
IsLeap(y) == (y % 4 = 0 /\ y % 100 # 0) \/ y % 400 = 0

DaysInMonth(y, m) ==
    IF m = 2 THEN (IF IsLeap(y) THEN 29 ELSE 28)
    ELSE IF m \in {4, 6, 9, 11} THEN 30 ELSE 31

\* a (year, month, day) triple that names a calendar day
ValidYMD(y, m, d) == y >= 1 /\ m \in 1..12 /\ d >= 1 /\ d <= DaysInMonth(y, m)

DaysBeforeYear(y) ==
    (y - 1) * 365 + ((y - 1) \div 4) - ((y - 1) \div 100) + ((y - 1) \div 400)

DaysBeforeMonth(y, m) ==
    LET cum == <<0, 31, 59, 90, 120, 151, 181, 212, 243, 273, 304, 334>>
    IN  cum[m] + (IF m > 2 /\ IsLeap(y) THEN 1 ELSE 0)

\* (year, month, day) -> day ordinal
ToOrdinal(y, m, d) == DaysBeforeYear(y) + DaysBeforeMonth(y, m) + d

\* day ordinal -> <<year, month, day>>
FromOrdinal(ord) ==
    LET n0   == ord - 1
        n400 == n0 \div 146097
        r400 == n0 % 146097
        n100 == r400 \div 36524
        r100 == r400 % 36524
        n4   == r100 \div 1461
        r4   == r100 % 1461
        n1   == r4 \div 365
        r1   == r4 % 365
        year == n400 * 400 + 1 + n100 * 100 + n4 * 4 + n1
    IN  IF n1 = 4 \/ n100 = 4 THEN <<year - 1, 12, 31>>
        ELSE LET m0   == (r1 + 50) \div 32
                 p0   == DaysBeforeMonth(year, m0)
                 mon  == IF p0 > r1 THEN m0 - 1 ELSE m0
                 prec == IF p0 > r1 THEN DaysBeforeMonth(year, m0 - 1) ELSE p0
             IN  <<year, mon, r1 - prec + 1>>

YearOf(ord)  == FromOrdinal(ord)[1]
MonthOf(ord) == FromOrdinal(ord)[2]
DayOf(ord)   == FromOrdinal(ord)[3]

\* label of the month bucket of a date under freq='M': the month's last day
MonthEnd(ord) ==
    LET c == FromOrdinal(ord) IN ToOrdinal(c[1], c[2], DaysInMonth(c[1], c[2]))

\* first day of the month of a date
MonthStart(ord) == LET c == FromOrdinal(ord) IN ToOrdinal(c[1], c[2], 1)

(***************************************************************************)
(* Values                                                                  *)
(***************************************************************************)
None == "None"

\* a local variable before / after its assignment
Unset == <<>>
Some(x) == <<x>>

RECURSIVE GCD(_, _)
GCD(a, b) == IF b = 0 THEN a ELSE GCD(b, a % b)

\* the exact quotient total / count, in lowest terms
Fraction(total, count) ==
    LET g == GCD(total, count) IN <<total \div g, count \div g>>

\* sum of the values vals[i] for the positions i of lo..hi that are in idxs
RECURSIVE SumRange(_, _, _, _)
SumRange(vals, idxs, lo, hi) ==
    IF lo > hi THEN 0
    ELSE IF lo = hi THEN (IF lo \in idxs THEN vals[lo] ELSE 0)
    ELSE LET mid == (lo + hi) \div 2
         IN  SumRange(vals, idxs, lo, mid) + SumRange(vals, idxs, mid + 1, hi)

\* sum of the values vals[i], i in the index set idxs of the sequence vals
SumAt(vals, idxs) == SumRange(vals, idxs, 1, Len(vals))

\* Series.mean() of one group: NaN for an empty group
MeanAt(vals, idxs) ==
    IF idxs = {} THEN NaN ELSE Fraction(SumAt(vals, idxs), Cardinality(idxs))

(***************************************************************************)
(* The feed: rows of the NOAA csv after the preamble                       *)
(***************************************************************************)
SmoothedOf(ord) == 41000 + (ord % 500) + 10 * (ord % 7)
TrendOf(ord)    == 41000 + (ord % 500)

Row(ord) ==
    LET c == FromOrdinal(ord)
    IN  [year |-> c[1], month |-> c[2], day |-> c[3],
         smoothed |-> SmoothedOf(ord), trend |-> TrendOf(ord)]

\* one row per calendar day, `span` days ending at `last`, ascending, with the
\* day `gap` days before `last` missing when gap > 0
DailyFeed(last, span, gap) ==
    LET n     == IF gap > 0 THEN span - 1 ELSE span
        first == last - span + 1
    IN  [i \in 1..n |->
            LET o == first + i - 1
            IN  Row(IF gap > 0 /\ o >= last - gap THEN o + 1 ELSE o)]

\* rows k and k+1 exchanged
SwapRows(feed, k) ==
    [i \in 1..Len(feed) |->
        IF i = k THEN feed[k + 1] ELSE IF i = k + 1 THEN feed[k] ELSE feed[i]]

\* row k repeated
RepeatRow(feed, k) ==
    [i \in 1..(Len(feed) + 1) |-> IF i <= k THEN feed[i] ELSE feed[i - 1]]

\* newest row first
ReverseRows(feed) == [i \in 1..Len(feed) |-> feed[Len(feed) + 1 - i]]

\* row k carries a day its month does not have
BadDayRow(feed, k) == [feed EXCEPT ![k].month = 2, ![k].day = 30]

\* the literal feed of the spec's end-to-end scenario
ScenarioFeed ==
    << [year |-> 2023, month |-> 1, day |-> 1, smoothed |-> 42000, trend |-> 41950],
       [year |-> 2023, month |-> 1, day |-> 2, smoothed |-> 42100, trend |-> 41960],
       [year |-> 2023, month |-> 1, day |-> 3, smoothed |-> 42200, trend |-> 41970] >>

(***************************************************************************)
(* Inputs of a run                                                         *)
(***************************************************************************)
\* days a feed may hold beyond YearAgoOffset rows
MaxExtraDays == 1

\* length in days of the long feeds
LongSpan == 400

LastDays == {ToOrdinal(2023, 6, 14), ToOrdinal(2024, 2, 29), ToOrdinal(2024, 3, 1)}

Spans == ((YearAgoOffset - 1) .. (YearAgoOffset + MaxExtraDays)) \cup {LongSpan}

\* 0: no missing day; otherwise the missing day's distance from the last row
Gaps == {0, 30, 200}

AscendingFeeds ==
    {DailyFeed(last, span, gap) : last \in LastDays, span \in Spans, gap \in Gaps}

DisorderedFeeds ==
    UNION { LET f == DailyFeed(last, YearAgoOffset + 1, 0)
            IN  {SwapRows(f, 100), SwapRows(f, 1), RepeatRow(f, 100), ReverseRows(f)}
            : last \in LastDays }

UnparseableFeeds == {BadDayRow(DailyFeed(last, YearAgoOffset, 0), 100) : last \in LastDays}

Feeds == AscendingFeeds \cup DisorderedFeeds \cup UnparseableFeeds \cup {ScenarioFeed}

\* what the clock may read at pd.Timestamp.today()
Todays ==
    {ToOrdinal(2020, 1, 1), ToOrdinal(2023, 1, 2), ToOrdinal(2023, 6, 5),
     ToOrdinal(2024, 2, 29), ToOrdinal(2024, 3, 1)}

\* values of the number_of_years argument
Lookbacks == {1, 4, NUMBER_OF_YEARS}

(***************************************************************************)
(* The steps of get_noaa_data as operators                                 *)
(***************************************************************************)
\* pd.to_datetime(data.iloc[:, 0:3]) fails unless every row names a day
DatesParse(rows) ==
    \A i \in 1..Len(rows) : ValidYMD(rows[i].year, rows[i].month, rows[i].day)

\* mutant: the index sorted by date, one row (the first) kept per date
WithDateIndexSorted(rows) ==
    LET n      == Len(rows)
        dates  == [i \in 1..n |-> ToOrdinal(rows[i].year, rows[i].month, rows[i].day)]
        ds     == {dates[i] : i \in 1..n}
        lo     == CHOOSE d \in ds : \A e \in ds : d <= e
        hi     == CHOOSE d \in ds : \A e \in ds : d >= e
        IsDate(d) == d \in ds
        sorted == SelectSeq([k \in 1..(hi - lo + 1) |-> lo + k - 1], IsDate)
        at     == [d \in ds |-> CHOOSE i \in 1..n : dates[i] = d]
    IN  [k \in 1..Len(sorted) |->
            LET r == rows[at[sorted[k]]]
            IN  [date |-> sorted[k], year |-> r.year, month |-> r.month,
                 day |-> r.day, smoothed |-> r.smoothed, trend |-> r.trend]]

\* data.set_index(pd.to_datetime(...), inplace=True): the rows keep their
\* order and number; each gets its date as index
WithDateIndex(rows) ==
    [i \in 1..Len(rows) |->
        [date |-> ToOrdinal(rows[i].year, rows[i].month, rows[i].day),
         year |-> rows[i].year, month |-> rows[i].month, day |-> rows[i].day,
         smoothed |-> rows[i].smoothed, trend |-> rows[i].trend]]

\* data.drop(['year', 'month', 'day'], axis=1, inplace=True)
WithoutDateColumns(rows) ==
    [i \in 1..Len(rows) |->
        [date |-> rows[i].date, smoothed |-> rows[i].smoothed, trend |-> rows[i].trend]]

\* data.groupby(pd.Grouper(freq='M'))['smoothed'].mean(): one value per month
\* from the earliest to the latest month of the index, labelled by the
\* month's last day; NaN for a month without rows
MonthlyMeans(rows) ==
    LET n    == Len(rows)
        keys == [i \in 1..n |-> MonthEnd(rows[i].date)]
        vals == [i \in 1..n |-> rows[i].smoothed]
        lo   == CHOOSE k \in {keys[i] : i \in 1..n} : \A j \in 1..n : k <= keys[j]
        hi   == CHOOSE k \in {keys[i] : i \in 1..n} : \A j \in 1..n : k >= keys[j]
        bins == IF n = 0 THEN {} ELSE {MonthEnd(o) : o \in lo..hi}
    IN  [b \in bins |-> MeanAt(vals, {i \in 1..n : keys[i] = b})]

\* mutant: the month's mean broadcast to every row of the month
WithMonthlyMeanBroadcast(rows) ==
    LET means == MonthlyMeans(rows)
    IN  [i \in 1..Len(rows) |->
            [date |-> rows[i].date, smoothed |-> rows[i].smoothed,
             trend |-> rows[i].trend,
             monthly_mean |-> means[MonthEnd(rows[i].date)]]]

\* data['monthly_mean'] = <series>: the assigned series is aligned on the
\* index of data: a row gets the value labelled with its own date, NaN when
\* no label equals its date
WithMonthlyMean(rows) ==
    LET means == MonthlyMeans(rows)
    IN  [i \in 1..Len(rows) |->
            [date |-> rows[i].date, smoothed |-> rows[i].smoothed,
             trend |-> rows[i].trend,
             monthly_mean |-> IF rows[i].date \in DOMAIN means
                              THEN means[rows[i].date] ELSE NaN]]

\* date.replace(year=y) raises ValueError unless the day exists in year y
CanReplaceYear(ord, y) == ValidYMD(y, MonthOf(ord), DayOf(ord))

ReplaceYear(ord, y) == ToOrdinal(y, MonthOf(ord), DayOf(ord))

\* Index.is_monotonic_increasing / is_monotonic_decreasing (not strict)
IsMonotonicIncreasing(rows) ==
    \A i \in 1..(Len(rows) - 1) : rows[i].date <= rows[i + 1].date

IsMonotonicDecreasing(rows) ==
    \A i \in 1..(Len(rows) - 1) : rows[i].date >= rows[i + 1].date

\* positions (1-based) of the rows labelled with a date
Occurrences(rows, label) == {i \in 1..Len(rows) : rows[i].date = label}

IsContiguous(S) ==
    S # {} /\ \A i \in S : \A j \in S : \A k \in i..j : k \in S

\* a label bound of .loc[a:b] on an index that is not monotonic is looked up
\* with get_loc: KeyError when the label is absent, or repeated in places
\* that are not adjacent
BoundRaises(rows, label) == ~IsContiguous(Occurrences(rows, label))

\* data.loc[start:end, :] raises KeyError
SliceRaises(rows, start, end) ==
    /\ ~IsMonotonicIncreasing(rows)
    /\ ~IsMonotonicDecreasing(rows)
    /\ BoundRaises(rows, start) \/ BoundRaises(rows, end)

\* number of rows before the first row of data.loc[start:end, :]
SliceLo(rows, start, end) ==
    IF IsMonotonicIncreasing(rows)
    THEN Cardinality({i \in 1..Len(rows) : rows[i].date < start})
    ELSE IF IsMonotonicDecreasing(rows)
    THEN Cardinality({i \in 1..Len(rows) : rows[i].date > start})
    ELSE (CHOOSE i \in Occurrences(rows, start) :
             \A j \in Occurrences(rows, start) : i <= j) - 1

\* mutant: the end bound exclusive, as in a positional slice
SliceHiExclusive(rows, start, end) ==
    IF IsMonotonicIncreasing(rows)
    THEN Cardinality({i \in 1..Len(rows) : rows[i].date < end})
    ELSE IF IsMonotonicDecreasing(rows)
    THEN Cardinality({i \in 1..Len(rows) : rows[i].date > end})
    ELSE (CHOOSE i \in Occurrences(rows, end) :
             \A j \in Occurrences(rows, end) : i <= j) - 1

\* number of rows up to and including the last row of data.loc[start:end, :]
SliceHi(rows, start, end) ==
    IF IsMonotonicIncreasing(rows)
    THEN Cardinality({i \in 1..Len(rows) : rows[i].date <= end})
    ELSE IF IsMonotonicDecreasing(rows)
    THEN Cardinality({i \in 1..Len(rows) : rows[i].date >= end})
    ELSE CHOOSE i \in Occurrences(rows, end) :
             \A j \in Occurrences(rows, end) : i >= j

\* mutant: the monthly means computed again on the selected rows
LocSliceReaggregated(rows, start, end) ==
    WithMonthlyMean(SubSeq(rows, SliceLo(rows, start, end) + 1,
                           SliceHi(rows, start, end)))

\* data.loc[start_date:end_date, :].copy() when it does not raise: both
\* bounds are inclusive
LocSlice(rows, start, end) ==
    SubSeq(rows, SliceLo(rows, start, end) + 1, SliceHi(rows, start, end))

\* data.iloc[-k, :] raises IndexError when data has fewer than k rows
IlocRaises(rows, k) == k > Len(rows)

\* mutant: the k-th row counted from the start
IlocFromStart(rows, k) == rows[k]

\* data.iloc[-k, :]: the k-th row counted from the end
IlocFromEnd(rows, k) == rows[Len(rows) - k + 1]

(***************************************************************************)
(* The run                                                                 *)
(***************************************************************************)
VARIABLES
    pc,               \* the statement about to run
    number_of_years,  \* argument of get_noaa_data
    data,             \* local `data` of get_noaa_data
    full,             \* the frame `data` named before line 35 rebinds it
    end_date,         \* local, unbound until line 33
    start_date,       \* local, unbound until line 34
    yesterday,        \* local, unbound until line 37
    year_ago,         \* local, unbound until line 38
    ret,              \* the tuple get_noaa_data returned to __main__
    image,            \* whether plot saved the figure
    err               \* the exception that ended the run, if any

vars == <<pc, number_of_years, data, full, end_date, start_date,
          yesterday, year_ago, ret, image, err>>

Init ==
    /\ pc = "fetch"
    /\ number_of_years \in Lookbacks
    /\ data = <<>>
    /\ full = <<>>
    /\ end_date = Unset
    /\ start_date = Unset
    /\ yesterday = Unset
    /\ year_ago = Unset
    /\ ret = Unset
    /\ image = None
    /\ err = None

\* an uncaught exception ends the process
Raise(kind) ==
    /\ pc' = "failed"
    /\ err' = kind

\* line 22: data = pd.read_csv(url, skiprows=skiprows)
Fetch ==
    /\ pc = "fetch"
    /\ \/ /\ \E f \in Feeds : data' = f
          /\ pc' = "set_index"
          /\ err' = err
       \/ /\ Raise("FetchError")
          /\ data' = data
    /\ UNCHANGED <<number_of_years, full, end_date, start_date,
                   yesterday, year_ago, ret, image>>

\* line 26: data.set_index(pd.to_datetime(data.iloc[:, 0:3]), inplace=True)
SetIndex ==
    /\ pc = "set_index"
    /\ IF DatesParse(data)
       THEN /\ data' = WithDateIndex(data)
            /\ pc' = "drop"
            /\ err' = err
       ELSE /\ Raise("ParseError")
            /\ data' = data
    /\ UNCHANGED <<number_of_years, full, end_date, start_date,
                   yesterday, year_ago, ret, image>>

\* line 27: data.drop(['year', 'month', 'day'], axis=1, inplace=True)
DropColumns ==
    /\ pc = "drop"
    /\ data' = WithoutDateColumns(data)
    /\ pc' = "aggregate"
    /\ UNCHANGED <<number_of_years, full, end_date, start_date,
                   yesterday, year_ago, ret, image, err>>

\* line 30: data['monthly_mean'] = data.groupby(...)['smoothed'].mean()
Aggregate ==
    /\ pc = "aggregate"
    /\ data' = WithMonthlyMean(data)
    /\ pc' = "today"
    /\ UNCHANGED <<number_of_years, full, end_date, start_date,
                   yesterday, year_ago, ret, image, err>>

\* line 33: end_date = pd.Timestamp.today().date()
Today ==
    /\ pc = "today"
    /\ \E t \in Todays : end_date' = Some(t)
    /\ pc' = "start_date"
    /\ UNCHANGED <<number_of_years, data, full, start_date,
                   yesterday, year_ago, ret, image, err>>

\* line 34: start_date = end_date.replace(year=end_date.year - number_of_years)
StartDate ==
    /\ pc = "start_date"
    /\ LET today == end_date[1]
           y     == YearOf(today) - number_of_years
       IN  IF CanReplaceYear(today, y)
           THEN /\ start_date' = Some(ReplaceYear(today, y))
                /\ pc' = "select"
                /\ err' = err
           ELSE /\ Raise("ValueError")
                /\ start_date' = start_date
    /\ UNCHANGED <<number_of_years, data, full, end_date,
                   yesterday, year_ago, ret, image>>

\* mutant: the window step checks for an empty selection and raises
SelectRaisingOnEmpty ==
    /\ pc = "select"
    /\ IF SliceRaises(data, start_date[1], end_date[1])
       THEN /\ Raise("KeyError")
            /\ UNCHANGED <<data, full>>
       ELSE IF LocSlice(data, start_date[1], end_date[1]) = <<>>
       THEN /\ Raise("EmptyWindowError")
            /\ data' = <<>>
            /\ full' = data
       ELSE /\ data' = LocSlice(data, start_date[1], end_date[1])
            /\ full' = data
            /\ pc' = "yesterday"
            /\ err' = err
    /\ UNCHANGED <<number_of_years, end_date, start_date,
                   yesterday, year_ago, ret, image>>

\* line 35: data = data.loc[start_date:end_date,:].copy()
Select ==
    /\ pc = "select"
    /\ IF SliceRaises(data, start_date[1], end_date[1])
       THEN /\ Raise("KeyError")
            /\ UNCHANGED <<data, full>>
       ELSE /\ data' = LocSlice(data, start_date[1], end_date[1])
            /\ full' = data
            /\ pc' = "yesterday"
            /\ err' = err
    /\ UNCHANGED <<number_of_years, end_date, start_date,
                   yesterday, year_ago, ret, image>>

\* line 37: yesterday = data.iloc[-1,:]
Yesterday ==
    /\ pc = "yesterday"
    /\ IF IlocRaises(data, YesterdayOffset)
       THEN /\ Raise("IndexError")
            /\ yesterday' = yesterday
       ELSE /\ yesterday' = Some(IlocFromEnd(data, YesterdayOffset))
            /\ pc' = "year_ago"
            /\ err' = err
    /\ UNCHANGED <<number_of_years, data, full, end_date, start_date,
                   year_ago, ret, image>>

\* mutant: a position before the first row is clamped to the first row
YearAgoClamped ==
    /\ pc = "year_ago"
    /\ year_ago' = Some(IF IlocRaises(data, YearAgoOffset)
                        THEN data[1] ELSE IlocFromEnd(data, YearAgoOffset))
    /\ pc' = "return"
    /\ UNCHANGED <<number_of_years, data, full, end_date, start_date,
                   yesterday, ret, image, err>>

\* line 38: year_ago = data.iloc[-366,:]
YearAgo ==
    /\ pc = "year_ago"
    /\ IF IlocRaises(data, YearAgoOffset)
       THEN /\ Raise("IndexError")
            /\ year_ago' = year_ago
       ELSE /\ year_ago' = Some(IlocFromEnd(data, YearAgoOffset))
            /\ pc' = "return"
            /\ err' = err
    /\ UNCHANGED <<number_of_years, data, full, end_date, start_date,
                   yesterday, ret, image>>

\* lines 40 and 156: return data, start_date, end_date, yesterday, year_ago
Return ==
    /\ pc = "return"
    /\ ret' = Some([data |-> data, start_date |-> start_date[1],
                    end_date |-> end_date[1], yesterday |-> yesterday[1],
                    year_ago |-> year_ago[1]])
    /\ pc' = "plot"
    /\ UNCHANGED <<number_of_years, data, full, end_date, start_date,
                   yesterday, year_ago, image, err>>

\* mutant: the exception of get_noaa_data is swallowed and plot runs anyway
PlotAlways ==
    /\ pc \in {"plot", "failed"}
    /\ image' = "saved"
    /\ pc' = "done"
    /\ UNCHANGED <<number_of_years, data, full, end_date, start_date,
                   yesterday, year_ago, ret, err>>

\* line 157: plot(data, start_date, end_date, yesterday, year_ago), which
\* ends in fig.savefig (line 152); drawing or saving may fail
Plot ==
    /\ pc = "plot"
    /\ \/ /\ image' = "saved"
          /\ pc' = "done"
          /\ err' = err
       \/ /\ Raise("RenderError")
          /\ image' = image
    /\ UNCHANGED <<number_of_years, data, full, end_date, start_date,
                   yesterday, year_ago, ret>>

Next ==
    \/ Fetch
    \/ SetIndex
    \/ DropColumns
    \/ Aggregate
    \/ Today
    \/ StartDate
    \/ Select
    \/ Yesterday
    \/ YearAgo
    \/ Return
    \/ Plot

Spec == Init /\ [][Next]_vars

(***************************************************************************)
(* Vocabulary of the properties, stated without the operators of the steps *)
(***************************************************************************)
\* a calendar month as one number
MonthKey(ord) == LET c == FromOrdinal(ord) IN c[1] * 12 + c[2]

IsLastDayOfMonth(ord) ==
    LET c == FromOrdinal(ord) IN c[3] = DaysInMonth(c[1], c[2])

RECURSIVE SetSum(_, _)
SetSum(rows, S) ==
    IF S = {} THEN 0
    ELSE LET i == CHOOSE j \in S : TRUE
         IN  rows[i].smoothed + SetSum(rows, S \ {i})

\* per calendar month of the series: <<sum of smoothed, number of records>>
MonthTotals(rows) ==
    LET n    == Len(rows)
        keys == [i \in 1..n |-> MonthKey(rows[i].date)]
    IN  [k \in {keys[i] : i \in 1..n} |->
            LET S == {i \in 1..n : keys[i] = k}
            IN  <<SetSum(rows, S), Cardinality(S)>>]

\* the value mm is set and is the quotient total[1] / total[2]
IsMean(mm, total) == mm # NaN /\ mm[1] * total[2] = total[1] * mm[2]

Aggregated == pc = "today"

Windowed == pc \in {"yesterday", "year_ago", "return", "plot", "done"}

Returned == ret # Unset

(***************************************************************************)
(* C1                                                                      *)
(***************************************************************************)
\* C1 as stated: after the aggregation step every record's monthly_mean is
\* set and equals the mean of smoothed over the records of its month.
C1_AsStated ==
    Aggregated =>
        LET totals == MonthTotals(data)
        IN  \A i \in 1..Len(data) :
                IsMean(data[i].monthly_mean, totals[MonthKey(data[i].date)])

\* C1, amended: after the aggregation step a record dated on the last
\* calendar day of its month carries the mean of smoothed over all records
\* of that month; every other record's monthly_mean is null.
C1_MonthEndOnly ==
    Aggregated =>
        LET totals == MonthTotals(data)
        IN  \A i \in 1..Len(data) :
                IF IsLastDayOfMonth(data[i].date)
                THEN IsMean(data[i].monthly_mean, totals[MonthKey(data[i].date)])
                ELSE data[i].monthly_mean = NaN

\* a month-end record with a mean over several records, beside a record of
\* the same month left null
C1_Witness ==
    /\ Aggregated
    /\ \E i \in 1..Len(data) : \E j \in 1..Len(data) :
          /\ MonthKey(data[i].date) = MonthKey(data[j].date)
          /\ data[i].monthly_mean # NaN
          /\ data[i].monthly_mean[1] # data[i].smoothed * data[i].monthly_mean[2]
          /\ data[j].monthly_mean = NaN

(***************************************************************************)
(* C2                                                                      *)
(***************************************************************************)
InWindow(r) == start_date[1] <= r.date /\ r.date <= end_date[1]

\* C2: on a date-ascending series the window step returns exactly the
\* records dated in [start_date, end_date], in their original order.
C2_WindowExact ==
    (Windowed /\ \A i \in 1..(Len(full) - 1) : full[i].date <= full[i + 1].date)
        => data = SelectSeq(full, InWindow)

\* records cut on both sides, and records dated on both bounds kept
C2_Witness ==
    /\ Windowed
    /\ \A i \in 1..(Len(full) - 1) : full[i].date <= full[i + 1].date
    /\ \E i \in 1..Len(full) : full[i].date < start_date[1]
    /\ \E i \in 1..Len(full) : full[i].date > end_date[1]
    /\ Len(data) > 0
    /\ data[1].date = start_date[1]
    /\ data[Len(data)].date = end_date[1]

(***************************************************************************)
(* C3                                                                      *)
(***************************************************************************)
\* C3: a filtered series of L >= 366 records yields yesterday = its last
\* record and year_ago = its record 365 positions before the last (the first
\* record when L = 366), whatever the calendar gaps; it does not fail.
C3_Positional ==
    /\ Returned =>
          LET r == ret[1]
              L == Len(r.data)
          IN  /\ L >= 366
              /\ r.yesterday = r.data[L]
              /\ r.year_ago = r.data[L - 365]
              /\ (L = 366 => r.year_ago = r.data[1])
    /\ (pc = "failed" /\ err = "IndexError") => Len(data) < 366

\* exactly 366 records with a missing day among them
C3_Witness ==
    /\ Returned
    /\ Len(ret[1].data) = 366
    /\ ret[1].yesterday.date - ret[1].year_ago.date > 365
    /\ ret[1].year_ago = ret[1].data[1]

(***************************************************************************)
(* C4                                                                      *)
(***************************************************************************)
\* C4: a filtered series of 1..365 records makes get_noaa_data fail with an
\* index error at the year_ago read; no year_ago record is ever taken or
\* returned from a window of fewer than 366 rows.
C4_ShortWindowFails ==
    /\ []((year_ago # Unset \/ Returned) => Len(data) >= 366)
    /\ [][(pc = "year_ago" /\ Len(data) \in 1..365)
            => (pc' = "failed" /\ err' = "IndexError"
                /\ year_ago' = Unset /\ ret' = Unset)]_vars

\* the boundary: 365 records, the last one read, the run failed
C4_Witness ==
    /\ pc = "failed"
    /\ err = "IndexError"
    /\ Len(data) = 365
    /\ yesterday = Some(data[365])
    /\ year_ago = Unset

(***************************************************************************)
(* C5                                                                      *)
(***************************************************************************)
\* the window step has run and selected no record
EmptyWindow == full # <<>> /\ data = <<>>

\* C5 as stated: an empty window makes the window step itself fail with
\* EmptyWindowError, and anchor extraction is not attempted on it.
C5_AsStated ==
    /\ pc = "yesterday" => data # <<>>
    /\ (pc = "failed" /\ EmptyWindow) => err = "EmptyWindowError"

\* C5, amended: on an empty window the window step raises nothing and
\* yields the empty series; anchor extraction is attempted and its first
\* read (the last record) fails with an index error; no anchor is bound,
\* nothing is returned and no image is saved.
C5_EmptyWindowIndexError ==
    /\ [](EmptyWindow =>
            /\ pc = "yesterday" \/ (pc = "failed" /\ err = "IndexError")
            /\ yesterday = Unset
            /\ year_ago = Unset
            /\ ret = Unset
            /\ image = None)
    /\ [][(pc = "yesterday" /\ data = <<>>)
            => (pc' = "failed" /\ err' = "IndexError")]_vars

\* the run failed in anchor extraction on an empty window
C5_Witness ==
    /\ EmptyWindow
    /\ pc = "failed"
    /\ err = "IndexError"
    /\ start_date # Unset

(***************************************************************************)
(* C6                                                                      *)
(***************************************************************************)
\* C6 as stated: for every today and every N the window step produces
\* end_date = today and start_date = today's month and day in year
\* today.year - N.
C6_AsStated ==
    (end_date # Unset /\ pc # "start_date") =>
        /\ start_date # Unset
        /\ FromOrdinal(start_date[1]) =
              << YearOf(end_date[1]) - number_of_years,
                 MonthOf(end_date[1]), DayOf(end_date[1]) >>

(***************************************************************************)
(* C7                                                                      *)
(***************************************************************************)
\* consecutive calendar days but for one missing day, 200 days before the
\* last record
OneMissingDay200(rows) ==
    LET L    == Len(rows)
        last == rows[L].date
    IN  /\ L >= 2
        /\ rows[1].date < last - 200
        /\ \A i \in 1..(L - 1) :
              rows[i + 1].date - rows[i].date
                 = IF rows[i].date = last - 201 THEN 2 ELSE 1

\* yesterday's date with the year reduced by one exists
HasAnniversary(ord) == ValidYMD(YearOf(ord) - 1, MonthOf(ord), DayOf(ord))

Anniversary(ord) == ToOrdinal(YearOf(ord) - 1, MonthOf(ord), DayOf(ord))

\* a 29 February dated after the anniversary and up to the date
LeapDayWithinYear(ord) ==
    \E d \in (Anniversary(ord) + 1)..ord : MonthOf(d) = 2 /\ DayOf(d) = 29

\* C7 as stated: with one missing day 200 days before the last record, the
\* date of year_ago is exactly one calendar day off the true anniversary.
C7_AsStated ==
    (Returned /\ OneMissingDay200(ret[1].data)
              /\ HasAnniversary(ret[1].yesterday.date)) =>
        LET a == Anniversary(ret[1].yesterday.date)
            d == ret[1].year_ago.date
        IN  d - a = 1 \/ a - d = 1

\* C7, amended: with one missing day 200 days before the last record, the
\* date of year_ago is exactly 366 calendar days before yesterday's date:
\* one day before the true anniversary when no 29 February lies between the
\* anniversary and yesterday, the anniversary itself when one does.
C7_Drift366 ==
    (Returned /\ OneMissingDay200(ret[1].data)) =>
        LET y == ret[1].yesterday.date
            d == ret[1].year_ago.date
        IN  /\ y - d = 366
            /\ HasAnniversary(y) =>
                  IF LeapDayWithinYear(y)
                  THEN d = Anniversary(y)
                  ELSE Anniversary(y) - d = 1

\* the drift of one day: no 29 February in the year before yesterday
C7_Witness ==
    /\ Returned
    /\ OneMissingDay200(ret[1].data)
    /\ HasAnniversary(ret[1].yesterday.date)
    /\ ~LeapDayWithinYear(ret[1].yesterday.date)
    /\ Anniversary(ret[1].yesterday.date) - ret[1].year_ago.date = 1

(***************************************************************************)
(* C8                                                                      *)
(***************************************************************************)
StrictlyAscendingByDate(rows) ==
    \A i \in 1..(Len(rows) - 1) : rows[i].date < rows[i + 1].date

\* row a names an earlier calendar day than row b
EarlierRow(a, b) ==
    \/ a.year < b.year
    \/ a.year = b.year /\ a.month < b.month
    \/ a.year = b.year /\ a.month = b.month /\ a.day < b.day

FeedStrictlyAscending(rows) ==
    \A i \in 1..(Len(rows) - 1) : EarlierRow(rows[i], rows[i + 1])

Normalized == pc = "aggregate"

\* C8 as stated: whatever the row order and the repeated dates of a
\* parseable feed, the normalized series is strictly ascending by date.
C8_AsStated == Normalized => StrictlyAscendingByDate(data)

\* C8, amended: normalization keeps the rows of a parseable feed in the
\* feed's order, one record per row, dated as the row says; the series is
\* strictly ascending by date, without duplicate date, exactly when the
\* feed's rows are.
C8_OrderPreserved ==
    /\ [][(pc = "set_index" /\ pc' = "drop") =>
            /\ Len(data') = Len(data)
            /\ \A i \in 1..Len(data) :
                  /\ FromOrdinal(data'[i].date)
                        = <<data[i].year, data[i].month, data[i].day>>
                  /\ data'[i].smoothed = data[i].smoothed
                  /\ data'[i].trend = data[i].trend
            /\ StrictlyAscendingByDate(data') <=> FeedStrictlyAscending(data)]_vars
    /\ [][(pc = "drop" /\ pc' = "aggregate") =>
            /\ Len(data') = Len(data)
            /\ \A i \in 1..Len(data) :
                  /\ data'[i].date = data[i].date
                  /\ data'[i].smoothed = data[i].smoothed
                  /\ data'[i].trend = data[i].trend]_vars

\* a normalized series with a later date before an earlier one
C8_Witness ==
    /\ Normalized
    /\ \E i \in 1..(Len(data) - 1) : data[i].date > data[i + 1].date

(***************************************************************************)
(* C9                                                                      *)
(***************************************************************************)
StepOrder ==
    { <<"fetch", "set_index">>, <<"set_index", "drop">>, <<"drop", "aggregate">>,
      <<"aggregate", "today">>, <<"today", "start_date">>,
      <<"start_date", "select">>, <<"select", "yesterday">>,
      <<"yesterday", "year_ago">>, <<"year_ago", "return">>,
      <<"return", "plot">>, <<"plot", "done">> }

\* a step is the next one of the order, or the abort of the run
InOrderOrAbort ==
    \/ (<<pc, pc'>> \in StepOrder /\ err' = None)
    \/ (pc' = "failed" /\ pc \notin {"failed", "done"} /\ err' # None)

\* C9: the steps run in the order fetch, normalize, aggregate, window,
\* render; a failure ends the run; the image is saved only after
\* get_noaa_data returned a filtered series and both anchors, never on or
\* after a failure.
C9_SequentialFailFast ==
    /\ [][InOrderOrAbort]_vars
    /\ [][pc # "failed" /\ pc # "done"]_vars
    /\ [](image = "saved" =>
            /\ Returned
            /\ err = None
            /\ Len(ret[1].data) >= 366
            /\ ret[1].yesterday = yesterday[1]
            /\ ret[1].year_ago = year_ago[1])
    /\ [](err # None => (pc = "failed" /\ image = None))

\* a run that went through every step and saved the image
C9_Witness ==
    /\ pc = "done"
    /\ image = "saved"
    /\ Returned
    /\ ret[1].data = data

(***************************************************************************)
(* C10                                                                     *)
(***************************************************************************)
\* C10: every non-null monthly_mean of the windowed series is the mean of
\* smoothed over all records of that month in the unfiltered series; the
\* windowed series is a run of consecutive records of the unfiltered one,
\* unchanged.
C10_AggregatedBeforeWindow ==
    Windowed =>
        /\ LET totals == MonthTotals(full)
           IN  \A i \in 1..Len(data) :
                   data[i].monthly_mean # NaN =>
                       IsMean(data[i].monthly_mean, totals[MonthKey(data[i].date)])
        /\ \E off \in 0..(Len(full) - Len(data)) :
               \A i \in 1..Len(data) : data[i] = full[off + i]

\* a retained month-end record whose month lost records to the window, and
\* whose mean is not the mean of the records retained
C10_Witness ==
    /\ Windowed
    /\ \E i \in 1..Len(data) :
          /\ data[i].monthly_mean # NaN
          /\ \E j \in 1..Len(full) :
                /\ MonthKey(full[j].date) = MonthKey(data[i].date)
                /\ full[j].date < start_date[1]
          /\ ~IsMean(data[i].monthly_mean,
                     MonthTotals(data)[MonthKey(data[i].date)])

====
